---- MODULE Spec2Model ----
(***************************************************************************)
(* Model of the OffRezBot conversation webhook (src/main.py) and of its    *)
(* Upstash-Redis session helpers (src/redis_utils.py).                     *)
(*                                                                         *)
(* A text is a sequence of one-character strings, so that str.strip,       *)
(* str.lower, str.isdigit, int() and float() are computed character by     *)
(* character as Python computes them.  A user_state dict is a function     *)
(* whose DOMAIN is the set of keys present in the dict.                    *)
(***************************************************************************)
EXTENDS Integers, Sequences, FiniteSets, TLC

\* ------------------------------------------------------------------ text

AsciiDigits == <<"0", "1", "2", "3", "4", "5", "6", "7", "8", "9">>

UpperCase == <<"A", "B", "C", "D", "E", "F", "G", "H", "I", "J", "K", "L", "M",
               "N", "O", "P", "Q", "R", "S", "T", "U", "V", "W", "X", "Y", "Z">>

LowerCase == <<"a", "b", "c", "d", "e", "f", "g", "h", "i", "j", "k", "l", "m",
               "n", "o", "p", "q", "r", "s", "t", "u", "v", "w", "x", "y", "z">>

\* Characters str.strip() removes.
Whitespace == {" ", "\t", "\n", "\r"}

\* "sup2" stands for U+00B2 (superscript two): str.isdigit() is true of it,
\* int() and float() reject it.
OtherDigits == {"sup2"}

Range(s) == {s[i] : i \in DOMAIN s}

IndexOf(s, c) == CHOOSE i \in DOMAIN s : s[i] = c

\* str.lower(), one character
LowerChar(c) == IF c \in Range(UpperCase) THEN LowerCase[IndexOf(UpperCase, c)] ELSE c

\* str.lower()
Lower(s) == [i \in DOMAIN s |-> LowerChar(s[i])]

RECURSIVE LStrip(_)
LStrip(s) == IF s # <<>> /\ Head(s) \in Whitespace THEN LStrip(Tail(s)) ELSE s

RECURSIVE RStrip(_)
RStrip(s) ==
    IF s # <<>> /\ s[Len(s)] \in Whitespace THEN RStrip(SubSeq(s, 1, Len(s) - 1)) ELSE s

\* str.strip()
Strip(s) == RStrip(LStrip(s))

\* str.isdigit(): non-empty and every character is a digit character
IsDigit(s) == s # <<>> /\ \A i \in DOMAIN s : s[i] \in Range(AsciiDigits) \cup OtherDigits

DigitValue(c) == IndexOf(AsciiDigits, c) - 1

RECURSIVE DecimalValue(_)
DecimalValue(s) ==
    IF s = <<>> THEN 0
    ELSE 10 * DecimalValue(SubSeq(s, 1, Len(s) - 1)) + DigitValue(s[Len(s)])

\* Digits with single underscores between them, as int() and float() accept.
IsDigitGroup(s) ==
    /\ s # <<>>
    /\ \A i \in DOMAIN s : s[i] \in Range(AsciiDigits) \cup {"_"}
    /\ s[1] # "_" /\ s[Len(s)] # "_"
    /\ \A i \in 1..(Len(s) - 1) : ~(s[i] = "_" /\ s[i + 1] = "_")

DropUnderscores(s) == SelectSeq(s, LAMBDA c : c # "_")

\* int(msg) raises ValueError
IntRaises(s) == ~IsDigitGroup(s)

\* int(msg), for a text int() accepts (called on the already stripped msg)
IntOf(s) == DecimalValue(DropUnderscores(s))

\* ----------------------------------------------------------------- float

Positions(s, cs) == {i \in DOMAIN s : s[i] \in cs}

Signed(s) == s # <<>> /\ Head(s) \in {"+", "-"}

Unsigned(s) == IF Signed(s) THEN Tail(s) ELSE s

SpecialFloats == { <<"i", "n", "f">>,
                   <<"i", "n", "f", "i", "n", "i", "t", "y">>,
                   <<"n", "a", "n">> }

\* the text before the exponent marker, and the text after it
Mantissa(u) ==
    IF Positions(u, {"e"}) = {} THEN u
    ELSE SubSeq(u, 1, (CHOOSE i \in Positions(u, {"e"}) : TRUE) - 1)

Exponent(u) ==
    SubSeq(u, (CHOOSE i \in Positions(u, {"e"}) : TRUE) + 1, Len(u))

IntPart(m) ==
    IF Positions(m, {"."}) = {} THEN m
    ELSE SubSeq(m, 1, (CHOOSE i \in Positions(m, {"."}) : TRUE) - 1)

FracPart(m) ==
    IF Positions(m, {"."}) = {} THEN <<>>
    ELSE SubSeq(m, (CHOOSE i \in Positions(m, {"."}) : TRUE) + 1, Len(m))

IsMantissa(m) ==
    /\ Cardinality(Positions(m, {"."})) <= 1
    /\ IntPart(m) = <<>> \/ IsDigitGroup(IntPart(m))
    /\ FracPart(m) = <<>> \/ IsDigitGroup(FracPart(m))
    /\ IntPart(m) # <<>> \/ FracPart(m) # <<>>

IsExponent(x) == IsDigitGroup(Unsigned(x))

\* the grammar of a finite float literal, sign removed and lower-cased
IsFiniteLiteral(u) ==
    /\ Cardinality(Positions(u, {"e"})) <= 1
    /\ IsMantissa(Mantissa(u))
    /\ Positions(u, {"e"}) # {} => IsExponent(Exponent(u))

\* float(msg) raises ValueError
FloatRaises(s) ==
    LET u == Unsigned(Lower(Strip(s)))
    IN  ~(u \in SpecialFloats \/ IsFiniteLiteral(u))

RECURSIVE Normalize(_, _)
\* a decimal m * 10^e with no trailing zero in m
Normalize(m, e) ==
    IF m = 0 THEN <<0, 0>>
    ELSE IF m % 10 = 0 THEN Normalize(m \div 10, e + 1)
    ELSE <<m, e>>

ExponentValue(u) ==
    IF Positions(u, {"e"}) = {} THEN 0
    ELSE LET x == Exponent(u)
             v == DecimalValue(DropUnderscores(Unsigned(x)))
         IN  IF Signed(x) /\ Head(x) = "-" THEN 0 - v ELSE v

\* float(msg), for a text float() accepts: a float is the record of its
\* class, its sign and its decimal value mant * 10^exp (mant without a
\* trailing zero), so that 130, 130.0 and 1.3e2 are the same float.
FloatOf(s) ==
    LET t == Lower(Strip(s))
        u == Unsigned(t)
        neg == Signed(t) /\ Head(t) = "-"
        m == Mantissa(u)
        frac == DropUnderscores(FracPart(m))
        n == Normalize(DecimalValue(DropUnderscores(IntPart(m)) \o frac),
                       ExponentValue(u) - Len(frac))
    IN  IF u = <<"n", "a", "n">> THEN [cls |-> "nan", neg |-> neg, mant |-> 0, exp |-> 0]
        ELSE IF u \in SpecialFloats THEN [cls |-> "inf", neg |-> neg, mant |-> 0, exp |-> 0]
        ELSE [cls |-> "finite", neg |-> neg, mant |-> n[1], exp |-> n[2]]

\* ------------------------------------------------------- text literals

Hi == <<"h", "i">>
Hie == <<"h", "i", "e">>
Hey == <<"h", "e", "y">>
Hello == <<"h", "e", "l", "l", "o">>
Landlord == <<"l", "a", "n", "d", "l", "o", "r", "d">>
Student == <<"s", "t", "u", "d", "e", "n", "t">>
Boys == <<"b", "o", "y", "s">>
Girls == <<"g", "i", "r", "l", "s">>
Mixed == <<"m", "i", "x", "e", "d">>
Yes == <<"y", "e", "s">>
No == <<"n", "o">>
Confirm == <<"c", "o", "n", "f", "i", "r", "m">>
Cancel == <<"c", "a", "n", "c", "e", "l">>

\* ----------------------------------------------------------- user_state

\* the dict {}
EmptyDict == <<>>

\* Python's None, as get_user_state returns it
None == [none |-> TRUE]

Has(d, k) == k \in DOMAIN d

\* d[k] = v
Set(d, k, v) == (k :> v) @@ d

\* d.get(k, default)
Get(d, k, default) == IF Has(d, k) THEN d[k] ELSE default

\* ---------------------------------------------------------- redis_utils

\* get_user_state(user_id): the stored dict, or None when the key is
\* missing or the request fails (ok = FALSE).  The value was written by
\* json.dumps and is read by json.loads: str, int, float and dict values
\* come back as they were written.
get_user_state(st, user_id, ok) ==
    IF ok /\ user_id \in DOMAIN st THEN st[user_id] ELSE None

\* update_user_state(user_id, state): the store after the call; a full
\* replace of the key's value, nothing written when the request fails.
update_user_state(st, user_id, state, ok) ==
    IF ok THEN (user_id :> state) @@ st ELSE st

\* ------------------------------------------------- webhook: the branches
\* The result of a branch of the step dispatch: the user_state it built,
\* the reply it chose, whether it wrote the state inside its accepting arm
\* (the update_user_state(phone_number, user_state) call that precedes the
\* one every branch ends with), and whether it raised.  A reply is the
\* sequence of the pieces of its text.

Advance(user_state, reply) ==
    [state |-> user_state, reply |-> reply, early |-> TRUE, raised |-> FALSE]

Stay(user_state, reply) ==
    [state |-> user_state, reply |-> reply, early |-> FALSE, raised |-> FALSE]

Raise(user_state) ==
    [state |-> user_state, reply |-> <<>>, early |-> FALSE, raised |-> TRUE]

\* name or 'there'
NameOrThere(name) == IF name = "" THEN "there" ELSE name

image_reply(name) ==
    << "Thanks ", NameOrThere(name),
       " for the image.\n\nNow let's collect house details.\n\nDo you have accommodation for *boys*, *girls*, or *mixed*?" >>

\* both arms of the test on step == "awaiting_image" do the same
image_handling(step, name, user_state) ==
    IF step = "awaiting_image"
    THEN Advance(Set(user_state, "step", "manual"), image_reply(name))
    ELSE Advance(Set(user_state, "step", "manual"), image_reply(name))

start_step(msg, user_state) ==
    IF msg \in {Hi, Hie, Hey}
    THEN Stay(user_state,
              <<"Hello! Are you a *student* or a *landlord*? Please reply with one.">>)
    ELSE IF msg = Landlord
    THEN Advance(Set(user_state, "step", "awaiting_image"),
                 <<"Great! Please send a screenshot of your WhatsApp username with your contact name for verification.">>)
    ELSE IF msg = Student
    THEN Advance(Set(user_state, "step", "student_pending"),
                 <<"Welcome, student! Please download our app to secure your accommodation.">>)
    ELSE Stay(user_state, <<"Please reply with *student* or *landlord* to continue.">>)

manual_step(msg, user_state) ==
    IF msg \in {Boys, Girls, Mixed}
    THEN Advance(Set(Set(user_state, "house_type", msg), "step", "ask_cat_owner"),
                 <<"Do you have a *cat*? Please reply *yes* or *no*.">>)
    ELSE Stay(user_state, <<"Please reply with *boys*, *girls*, or *mixed*.">>)

ask_cat_owner_step(msg, user_state) ==
    IF msg \in {Yes, No}
    THEN Advance(Set(Set(user_state, "has_cat", msg), "step", "ask_availability"),
                 <<"Do you have a vacancy? Reply *yes* or *no*.">>)
    ELSE Stay(user_state, <<"Do you have a cat? Please reply *yes* or *no*.">>)

ask_availability_step(msg, user_state) ==
    IF msg = No
    THEN Advance(Set(user_state, "step", "end"),
                 <<"OK thanks. Whenever you have vacancies, don't hesitate to say 'Hi!'">>)
    ELSE IF msg = Yes
    THEN Advance(Set(user_state, "step", "ask_room_type"),
                 <<"How many *boys* or *girls* do you need accommodation for in *single rooms*? (Enter number only)">>)
    ELSE Stay(user_state, <<"Do you have a vacancy? Please reply *yes* or *no*.">>)

\* The three count steps: msg.isdigit() guards int(msg); int() raising on a
\* text isdigit() accepts leaves the handler through its except clause.
count_step(msg, user_state, key, next, ask, again) ==
    IF IsDigit(msg)
    THEN IF IntRaises(msg) THEN Raise(user_state)
         ELSE Advance(Set(Set(user_state, key, IntOf(msg)), "step", next), ask)
    ELSE Stay(user_state, again)

\* The three rent steps: float(msg) inside try, ValueError re-prompts.
rent_step(msg, user_state, key, next, ask, again) ==
    IF FloatRaises(msg)
    THEN Stay(user_state, again)
    ELSE Advance(Set(Set(user_state, key, FloatOf(msg)), "step", next), ask)

ask_room_type_step(msg, user_state) ==
    count_step(msg, user_state, "room_single", "confirm_single",
               <<"Please confirm your rent for a single room (e.g. 130).">>,
               <<"Please enter the number of students needing single rooms (number only).">>)

confirm_single_step(msg, user_state) ==
    rent_step(msg, user_state, "rent_single", "ask_2_sharing",
              <<"How many students need 2-sharing rooms? (Enter number only)">>,
              <<"Please enter the rent as a number (e.g. 130).">>)

\* ask_2_sharing_step writing the 3-sharing key (a slip when copying the
\* branch)
ask_2_sharing_step_wrong_key(msg, user_state) ==
    count_step(msg, user_state, "room_3_sharing", "confirm_2_sharing",
               <<"Please confirm your rent for 2-sharing rooms (e.g. 80).">>,
               <<"Please enter number of students needing 2-sharing rooms (number only).">>)

ask_2_sharing_step(msg, user_state) ==
    count_step(msg, user_state, "room_2_sharing", "confirm_2_sharing",
               <<"Please confirm your rent for 2-sharing rooms (e.g. 80).">>,
               <<"Please enter number of students needing 2-sharing rooms (number only).">>)

confirm_2_sharing_step(msg, user_state) ==
    rent_step(msg, user_state, "rent_2_sharing", "ask_3_sharing",
              <<"How many students need 3-sharing rooms? (Enter number only)">>,
              <<"Please enter the rent as a number (e.g. 80).">>)

ask_3_sharing_step(msg, user_state) ==
    count_step(msg, user_state, "room_3_sharing", "confirm_3_sharing",
               <<"Please confirm your rent for 3-sharing rooms (e.g. 60).">>,
               <<"Please enter number of students needing 3-sharing rooms (number only).">>)

confirm_3_sharing_step(msg, user_state) ==
    rent_step(msg, user_state, "rent_3_sharing", "ask_student_age",
              <<"What age group are the students? (e.g. 18-22)">>,
              <<"Please enter the rent as a number (e.g. 60).">>)

\* no test of msg, and a single update_user_state
ask_student_age_step(msg, user_state) ==
    Stay(Set(Set(user_state, "student_age", msg), "step", "confirm_listing"),
         <<"Thank you. Please confirm your listing by typing *confirm* or type *cancel* to abort.">>)

confirm_listing_step(msg, user_state) ==
    IF msg = Confirm
    THEN Advance(Set(user_state, "step", "end"),
                 <<"Thank you! Your listing will be published soon.">>)
    ELSE IF msg = Cancel
    THEN Advance(Set(user_state, "step", "end"),
                 <<"Your listing was cancelled. Type 'Hi' to start over.">>)
    ELSE Stay(user_state,
              <<"Please type *confirm* to publish your listing or *cancel* to abort.">>)

end_step(msg, user_state) ==
    IF msg \in {Hi, Hie, Hey}
    THEN Advance(Set(user_state, "step", "start"),
                 <<"Welcome back! Are you a *student* or a *landlord*?">>)
    ELSE Stay(user_state, <<"Thank you for contacting us. Type 'Hi' to start again.">>)

\* the final else of the dispatch: every step without an arm of its own
default_response(user_state) ==
    Stay(Set(user_state, "step", "start"),
         <<"Sorry, I didn't understand that. Type 'Hi' to start over.">>)

\* the if / elif chain on msg_type and step
dispatch(step, msg_type, msg, name, user_state) ==
    IF msg_type = "image" THEN image_handling(step, name, user_state)
    ELSE IF step = "start" THEN start_step(msg, user_state)
    ELSE IF step = "manual" THEN manual_step(msg, user_state)
    ELSE IF step = "ask_cat_owner" THEN ask_cat_owner_step(msg, user_state)
    ELSE IF step = "ask_availability" THEN ask_availability_step(msg, user_state)
    ELSE IF step = "ask_room_type" THEN ask_room_type_step(msg, user_state)
    ELSE IF step = "confirm_single" THEN confirm_single_step(msg, user_state)
    ELSE IF step = "ask_2_sharing" THEN ask_2_sharing_step(msg, user_state)
    ELSE IF step = "confirm_2_sharing" THEN confirm_2_sharing_step(msg, user_state)
    ELSE IF step = "ask_3_sharing" THEN ask_3_sharing_step(msg, user_state)
    ELSE IF step = "confirm_3_sharing" THEN confirm_3_sharing_step(msg, user_state)
    ELSE IF step = "ask_student_age" THEN ask_student_age_step(msg, user_state)
    ELSE IF step = "confirm_listing" THEN confirm_listing_step(msg, user_state)
    ELSE IF step = "end" THEN end_step(msg, user_state)
    ELSE default_response(user_state)

\* ---------------------------------------------------------------- state

VARIABLES
    store,   \* Redis keys user:{id}: the user_state stored for each party that has one
    sent,    \* the message handed to send() while handling the last delivery
    last,    \* the delivery most recently posted to /webhook, with its HTTP status
    expiry,  \* Redis: the seconds each stored key still has to live
    pending, \* the delivery the provider still holds and may post again
    pos,     \* how many deliveries of the scripted conversation each party has made
    lapsed,  \* Redis: the sessions dropped at the end of their time to live
    running, \* the requests a worker has begun and not finished, per worker
    serial,  \* the store as it would be had the requests been handled one at a time
    overlapped, \* some request began while another of the same party was running
    writes,  \* how often each answer of a party was stored since its session was last at Start
    dedup,   \* Redis keys dedup:{id}: the list of recent message ids of each party that has one
    checking, \* the calls of is_duplicate_message begun and not finished, per worker
    checked, \* what the last call of is_duplicate_message of each worker returned
    serial_dedup \* the dedup keys as they would be had the calls run one at a time

\* the keys of user_state that hold an answer
AttributeKeys ==
    {"house_type", "has_cat", "room_single", "rent_single", "room_2_sharing",
     "rent_2_sharing", "room_3_sharing", "rent_3_sharing", "student_age"}

\* no call of is_duplicate_message
NoCall == [user_id |-> "", message_id |-> "", old |-> <<>>, at |-> "none",
           duplicate |-> FALSE]

\* the workers of the server that handle requests at the same time
Workers == {"w1", "w2"}

\* a worker that is handling no request
Idle == [from |-> "", type |-> "", body |-> <<>>, name |-> "",
         user_state |-> <<>>, at |-> "idle"]

\* the variables the webhook leaves alone
\* the variables of the duplicate check and the count of stored answers
aside == <<writes, dedup, checking, checked, serial_dedup>>

env == <<pending, pos, lapsed, running, serial, overlapped, aside>>

vars == <<store, sent, last, expiry, pending, pos, lapsed, running, serial, overlapped,
          writes, dedup, checking, checked, serial_dedup>>

\* nothing was handed to send()
NoMessage == [to |-> "", reply |-> <<>>, delivered |-> FALSE]

\* the outcomes of the four network calls of one delivery
AllOk == [load |-> TRUE, save1 |-> TRUE, save2 |-> TRUE, send |-> TRUE]

\* retry: the delivery is the provider posting an earlier delivery again;
\* io: how the network calls made while handling it ended
NoDelivery == [from |-> "", type |-> "", retry |-> FALSE, status |-> 0, io |-> AllOk]

NoPending == [from |-> "", type |-> "", body |-> <<>>, name |-> ""]

\* send(message, recipient, phone_id): refuses an empty message or recipient,
\* and reports whether the Graph API call succeeded (ok)
send(message, recipient, ok) ==
    [to |-> recipient, reply |-> message,
     delivered |-> ok /\ message # <<>> /\ recipient # ""]

\* owner_phone = os.environ.get("OWNER_PHONE"): the operator address
owner_phone == "owner"

\* msg = message["text"]["body"].strip().lower() if msg_type == "text" else ""
msg_of(e) == IF e.type = "text" THEN Lower(Strip(e.body)) ELSE <<>>

\* the session load as it would be if every delivery stored its profile name
init_user_state_overwrite(st, sender, name, ok) ==
    LET loaded == get_user_state(st, sender, ok)
        user_state == IF loaded = None \/ loaded = EmptyDict THEN EmptyDict ELSE loaded
    IN  Set(Set(user_state, "user", [name |-> name]), "user_id", sender)

\* "Initialize user state": get_user_state(sender) or {}, the "user" entry
\* added when the dict has none, user_id set on every delivery
init_user_state(st, sender, name, ok) ==
    LET loaded == get_user_state(st, sender, ok)
        user_state == IF loaded = None \/ loaded = EmptyDict THEN EmptyDict ELSE loaded
        named == IF Has(user_state, "user") THEN user_state
                 ELSE Set(user_state, "user", [name |-> name])
    IN  Set(named, "user_id", sender)

\* step = user_state.get("step", "start")
step_of(user_state) == Get(user_state, "step", "start")

\* "_ttl": 3600 * 24 * 2 in the payload of update_user_state
SessionTtl == 3600 * 24 * 2

\* the time to live as it would be if only the first write of a key set it
update_ttl_once(exp, user_id, ok) ==
    IF ok /\ user_id \notin DOMAIN exp THEN (user_id :> SessionTtl) @@ exp ELSE exp

\* update_user_state(user_id, state), the key's time to live after the
\* call: every successful write starts the two days again
update_ttl(exp, user_id, ok) ==
    IF ok THEN (user_id :> SessionTtl) @@ exp ELSE exp

\* the handler as it would be if a failed send undid the writes
webhook_rollback(sender, e, retry, io) ==
    LET user_state == init_user_state(store, sender, e.name, io.load)
        r == dispatch(step_of(user_state), e.type, msg_of(e), e.name, user_state)
        st1 == IF r.early THEN update_user_state(store, sender, r.state, io.save1)
               ELSE store
    IN  /\ store' = IF r.raised \/ ~io.send THEN store
                    ELSE update_user_state(st1, sender, r.state, io.save2)
        /\ expiry' = IF r.raised THEN expiry
                     ELSE update_ttl(IF r.early THEN update_ttl(expiry, sender, io.save1)
                                     ELSE expiry,
                                     sender, io.save2)
        /\ sent' = IF r.raised THEN NoMessage ELSE send(r.reply, sender, io.send)
        /\ last' = [from |-> sender, type |-> e.type, retry |-> retry,
                    status |-> IF r.raised THEN 500 ELSE 200, io |-> io]

\* POST /webhook with one message from sender: load, dispatch, write the
\* state (once inside an accepting arm, once at the end of the branch),
\* send the reply, answer 200; an exception answers 500 with nothing
\* written and nothing sent.  The message id is never read.
webhook(sender, e, retry, io) ==
    LET user_state == init_user_state(store, sender, e.name, io.load)
        r == dispatch(step_of(user_state), e.type, msg_of(e), e.name, user_state)
        st1 == IF r.early THEN update_user_state(store, sender, r.state, io.save1)
               ELSE store
    IN  /\ store' = IF r.raised THEN store
                    ELSE update_user_state(st1, sender, r.state, io.save2)
        /\ expiry' = IF r.raised THEN expiry
                     ELSE update_ttl(IF r.early THEN update_ttl(expiry, sender, io.save1)
                                     ELSE expiry,
                                     sender, io.save2)
        /\ sent' = IF r.raised THEN NoMessage ELSE send(r.reply, sender, io.send)
        /\ last' = [from |-> sender, type |-> e.type, retry |-> retry,
                    status |-> IF r.raised THEN 500 ELSE 200, io |-> io]

\* ---------------------------------------------------------- environment

Parties == {"p1"}

Names == {"Ann"}

Bodies ==
    { <<" ", "H", "i", " ">>, Hie, Hey, Hello, Landlord, Student, Boys, Yes, No,
      <<"3">>, <<"-", "5">>, <<"a", "b", "c">>, <<"sup2">>, Confirm, Cancel }

Deliveries ==
    [type : {"text"}, body : Bodies, name : Names]
    \cup [type : {"image", "audio"}, body : {<<>>}, name : Names]

ScriptParties == {"p1", "p2"}

Init ==
    /\ store = <<>>
    /\ sent = NoMessage
    /\ last = NoDelivery
    /\ expiry = <<>>
    /\ pending = NoPending
    /\ pos = [p \in ScriptParties |-> 0]
    /\ lapsed = <<>>
    /\ running = [w \in Workers |-> Idle]
    /\ serial = <<>>
    /\ overlapped = FALSE
    /\ writes = [p \in Parties |-> [k \in AttributeKeys |-> 0]]
    /\ dedup = <<>>
    /\ checking = [w \in Workers |-> NoCall]
    /\ checked = [w \in Workers |-> NoCall]
    /\ serial_dedup = <<>>

\* a party posts a new message
Deliver ==
    \E sender \in Parties, e \in Deliveries :
        webhook(sender, e, FALSE, AllOk) /\ UNCHANGED env

Next == Deliver

Spec == Init /\ [][Next]_vars

\* ------------------------------------------------- provider redelivery
\* The provider keeps the delivery it posted and may post it again, with
\* the same sender, message id and content.

RetryBodies == {Landlord, Boys, Yes, <<"3">>, Confirm}

RetryDeliveries ==
    [type : {"text"}, body : RetryBodies, name : Names]
    \cup [type : {"image"}, body : {<<>>}, name : Names]

Post ==
    \E sender \in Parties, e \in RetryDeliveries :
        /\ webhook(sender, e, FALSE, AllOk)
        /\ pending' = [from |-> sender, type |-> e.type, body |-> e.body, name |-> e.name]
        /\ UNCHANGED <<pos, lapsed, running, serial, overlapped, aside>>

Redeliver ==
    /\ pending # NoPending
    /\ webhook(pending.from,
               [type |-> pending.type, body |-> pending.body, name |-> pending.name],
               TRUE, AllOk)
    /\ UNCHANGED env

NextRetry == Post \/ Redeliver

SpecRetry == Init /\ [][NextRetry]_vars

\* ------------------------------------------------------- older record
\* The store already holds a session written by an earlier version of
\* the bot: its step is none the if / elif chain knows, and it has one
\* answer.

LegacySession ==
    [user |-> [name |-> "Ann"], user_id |-> "p1", step |-> "legacy",
     house_type |-> Boys]

InitLegacy ==
    /\ store = [p \in Parties |-> LegacySession]
    /\ sent = NoMessage
    /\ last = NoDelivery
    /\ expiry = [p \in Parties |-> SessionTtl]
    /\ pending = NoPending
    /\ pos = [p \in ScriptParties |-> 0]
    /\ lapsed = <<>>
    /\ running = [w \in Workers |-> Idle]
    /\ serial = <<>>
    /\ overlapped = FALSE
    /\ writes = [p \in Parties |-> [k \in AttributeKeys |-> 0]]
    /\ dedup = <<>>
    /\ checking = [w \in Workers |-> NoCall]
    /\ checked = [w \in Workers |-> NoCall]
    /\ serial_dedup = <<>>

LegacyDeliver ==
    \E sender \in Parties, e \in RetryDeliveries :
        webhook(sender, e, FALSE, AllOk) /\ UNCHANGED env

NextLegacy == LegacyDeliver

SpecLegacy == InitLegacy /\ [][NextLegacy]_vars

\* ------------------------------------------------------ profile names
\* The profile name that comes with a delivery may be absent ('') and may
\* differ from one delivery to the next.

ProfileNames == {"", "Ann", "Bob"}

NamedDeliveries ==
    [type : {"text"}, body : RetryBodies, name : ProfileNames]
    \cup [type : {"image"}, body : {<<>>}, name : ProfileNames]

NamedDeliver ==
    \E sender \in Parties, e \in NamedDeliveries :
        webhook(sender, e, FALSE, AllOk) /\ UNCHANGED env

NextNames == NamedDeliver

SpecNames == Init /\ [][NextNames]_vars

\* ------------------------------------------------------------- expiry
\* Time passes between deliveries.  Redis counts down the time to live
\* that the last write gave a key and drops the key when it reaches 0.

\* the seconds that pass in one step of the clock
TickSeconds == 86400

ExpiryBodies == {Landlord, Boys, Yes}

ExpiryDeliveries ==
    [type : {"text"}, body : ExpiryBodies, name : Names]
    \cup [type : {"image"}, body : {<<>>}, name : Names]

ExpiryDeliver ==
    \E sender \in Parties, e \in ExpiryDeliveries :
        webhook(sender, e, FALSE, AllOk) /\ UNCHANGED env

Tick ==
    LET alive == {p \in DOMAIN expiry : expiry[p] > TickSeconds}
        dropped == DOMAIN store \ alive
    IN  /\ DOMAIN expiry # {}
        /\ expiry' = [p \in alive |-> expiry[p] - TickSeconds]
        /\ store' = [p \in DOMAIN store \cap alive |-> store[p]]
        /\ lapsed' = [p \in dropped \cup DOMAIN lapsed |->
                        IF p \in dropped THEN store[p] ELSE lapsed[p]]
        /\ UNCHANGED <<sent, last, pending, pos, running, serial, overlapped, aside>>

NextExpiry == ExpiryDeliver \/ Tick

SpecExpiry == Init /\ [][NextExpiry]_vars

\* --------------------------------------------------------- concurrency
\* The server handles requests on several workers.  A request reads the
\* session, computes on its own copy and writes it back; other requests
\* may run between its network calls.  Nothing locks a party's key.

ConcurrentBodies == {Boys, Yes}

ConcurrentDeliveries ==
    [type : {"text"}, body : ConcurrentBodies, name : Names]
    \cup [type : {"image"}, body : {<<>>}, name : Names]

\* the request as it would be if the session were not read from the store
request_unread(st, sender, e) ==
    [from |-> sender, type |-> e.type, body |-> e.body, name |-> e.name,
     user_state |-> init_user_state(EmptyDict, sender, e.name, TRUE), at |-> "loaded"]

\* a request after user_state = get_user_state(sender) or {}
request(st, sender, e) ==
    [from |-> sender, type |-> e.type, body |-> e.body, name |-> e.name,
     user_state |-> init_user_state(st, sender, e.name, TRUE), at |-> "loaded"]

\* what the if / elif chain makes of the request's copy of the session
result(q) ==
    dispatch(step_of(q.user_state), q.type, msg_of(q), q.name, q.user_state)

\* the store after a request that no other request runs into
handled(st, sender, e) ==
    LET user_state == init_user_state(st, sender, e.name, TRUE)
        r == dispatch(step_of(user_state), e.type, msg_of(e), e.name, user_state)
    IN  IF r.raised THEN st ELSE update_user_state(st, sender, r.state, TRUE)

\* a worker takes a delivery and loads the session
Begin ==
    \E w \in Workers, sender \in Parties, e \in ConcurrentDeliveries :
        /\ running[w] = Idle
        /\ running' = [running EXCEPT ![w] = request(store, sender, e)]
        /\ serial' = handled(serial, sender, e)
        /\ overlapped' = (overlapped \/ \E v \in Workers : running[v].from = sender)
        /\ UNCHANGED <<store, sent, last, expiry, pending, pos, lapsed, aside>>

\* the update_user_state inside an accepting arm
Write ==
    \E w \in Workers :
        LET q == running[w]
            r == result(q)
        IN  /\ q.at = "loaded" /\ r.early /\ ~r.raised
            /\ store' = update_user_state(store, q.from, r.state, TRUE)
            /\ expiry' = update_ttl(expiry, q.from, TRUE)
            /\ running' = [running EXCEPT ![w].at = "written"]
            /\ UNCHANGED <<sent, last, pending, pos, lapsed, serial, overlapped, aside>>

\* the update_user_state at the end of the branch, the send and the answer
Finish ==
    \E w \in Workers :
        LET q == running[w]
            r == result(q)
        IN  /\ q.at = "written" \/ (q.at = "loaded" /\ (r.raised \/ ~r.early))
            /\ store' = IF r.raised THEN store
                        ELSE update_user_state(store, q.from, r.state, TRUE)
            /\ expiry' = IF r.raised THEN expiry ELSE update_ttl(expiry, q.from, TRUE)
            /\ sent' = IF r.raised THEN NoMessage ELSE send(r.reply, q.from, TRUE)
            /\ last' = [from |-> q.from, type |-> q.type, retry |-> FALSE,
                        status |-> IF r.raised THEN 500 ELSE 200, io |-> AllOk]
            /\ running' = [running EXCEPT ![w] = Idle]
            /\ UNCHANGED <<pending, pos, lapsed, serial, overlapped, aside>>

NextConcurrent == Begin \/ Write \/ Finish

SpecConcurrent == Init /\ [][NextConcurrent]_vars

\* ------------------------------------------------------ stored answers
\* Counting, for each answer, how often a delivery has stored it since the
\* party's session was last at Start.

\* the count stops here
MaxWrites == 2

\* the step whose accepting arm assigns user_state[k]
OwningStep ==
    [house_type |-> "manual", has_cat |-> "ask_cat_owner",
     room_single |-> "ask_room_type", rent_single |-> "confirm_single",
     room_2_sharing |-> "ask_2_sharing", rent_2_sharing |-> "confirm_2_sharing",
     room_3_sharing |-> "ask_3_sharing", rent_3_sharing |-> "confirm_3_sharing",
     student_age |-> "ask_student_age"]

\* the answers the handler assigns for delivery e on the loaded user_state:
\* those of the step's arm, when the arm accepts the input
assigned(user_state, e) ==
    LET step == step_of(user_state)
        r == dispatch(step, e.type, msg_of(e), e.name, user_state)
    IN  { k \in AttributeKeys :
            /\ e.type # "image" /\ ~r.raised
            /\ OwningStep[k] = step
            /\ step_of(r.state) # step }

counted(count, user_state, e) ==
    LET r == dispatch(step_of(user_state), e.type, msg_of(e), e.name, user_state)
    IN  IF r.raised THEN count
        ELSE IF step_of(r.state) = "start" THEN [k \in AttributeKeys |-> 0]
        ELSE [k \in AttributeKeys |->
                IF k \in assigned(user_state, e) /\ count[k] < MaxWrites
                THEN count[k] + 1 ELSE count[k]]

LifecycleDeliver ==
    \E sender \in Parties, e \in RetryDeliveries :
        /\ webhook(sender, e, FALSE, AllOk)
        /\ writes' = [writes EXCEPT ![sender] =
                        counted(@, init_user_state(store, sender, e.name, TRUE), e)]
        /\ UNCHANGED <<pending, pos, lapsed, running, serial, overlapped,
                       dedup, checking, checked, serial_dedup>>

NextLifecycle == LifecycleDeliver

SpecLifecycle == Init /\ [][NextLifecycle]_vars

\* ----------------------------------------------------- duplicate check
\* is_duplicate_message(user_id, message_id) of redis_utils.py.  The webhook
\* does not call it; it is checked here on its own.

\* old[-n:]
LastN(s, n) == IF Len(s) <= n THEN s ELSE SubSeq(s, Len(s) - n + 1, Len(s))

\* old[:n]
FirstN(s, n) == IF Len(s) <= n THEN s ELSE SubSeq(s, 1, n)

\* the GET of dedup:{user_id}: the stored list, or the fallback [] when the
\* response is not a 200 that starts with OK
get_dedup(rec, user_id, get) ==
    IF get = "ok" /\ user_id \in DOMAIN rec
    THEN [found |-> TRUE, old |-> rec[user_id]]
    ELSE [found |-> FALSE, old |-> <<>>]

\* the check as it would be if the list kept its first five ids
is_duplicate_message_keep_first(rec, user_id, message_id, get, post) ==
    LET g == get_dedup(rec, user_id, get)
        old == FirstN(Append(g.old, message_id), 5)
    IN  IF get = "raised" THEN [dedup |-> rec, old |-> <<>>, duplicate |-> FALSE]
        ELSE IF g.found /\ message_id \in Range(g.old)
        THEN [dedup |-> rec, old |-> g.old, duplicate |-> TRUE]
        ELSE [dedup |-> IF post THEN (user_id :> old) @@ rec ELSE rec,
              old |-> g.old, duplicate |-> FALSE]

\* get: "ok", "failed" (a response that is not 200 / OK) or "raised" (the
\* request raised); post: the POST wrote the list.  The result is the
\* keys after the call, the list the call read, and the value returned.
is_duplicate_message(rec, user_id, message_id, get, post) ==
    LET g == get_dedup(rec, user_id, get)
        old == LastN(Append(g.old, message_id), 5)
    IN  IF get = "raised" THEN [dedup |-> rec, old |-> <<>>, duplicate |-> FALSE]
        ELSE IF g.found /\ message_id \in Range(g.old)
        THEN [dedup |-> rec, old |-> g.old, duplicate |-> TRUE]
        ELSE [dedup |-> IF post THEN (user_id :> old) @@ rec ELSE rec,
              old |-> g.old, duplicate |-> FALSE]

MessageIds == {"m1", "m2", "m3", "m4", "m5", "m6"}

\* one call of is_duplicate_message, run to its end
Check ==
    \E user_id \in Parties, message_id \in MessageIds :
        LET c == is_duplicate_message(dedup, user_id, message_id, "ok", TRUE)
        IN  /\ dedup' = c.dedup
            /\ checked' = [checked EXCEPT !["w1"] =
                              [user_id |-> user_id, message_id |-> message_id,
                               old |-> c.old, at |-> "returned",
                               duplicate |-> c.duplicate]]
            /\ UNCHANGED <<store, sent, last, expiry, pending, pos, lapsed, running,
                           serial, overlapped, writes, checking, serial_dedup>>

NextDedup == Check

SpecDedup == Init /\ [][NextDedup]_vars

\* --------------------------------------------- concurrent duplicate checks
\* Two workers call is_duplicate_message at the same time.  A call reads
\* the list with a GET and writes the new list with a POST; other calls
\* may run between the two.

RaceIds == {"m1", "m2", "m3"}

\* the call as it would be if it never looked at the stored list
read_call_blind(rec, user_id, message_id) ==
    [user_id |-> user_id, message_id |-> message_id,
     old |-> <<>>, at |-> "read", duplicate |-> FALSE]

\* the call after the GET and the test `message_id in old`
read_call(rec, user_id, message_id) ==
    LET g == get_dedup(rec, user_id, "ok")
    IN  [user_id |-> user_id, message_id |-> message_id,
         old |-> g.old, at |-> "read",
         duplicate |-> g.found /\ message_id \in Range(g.old)]

\* a worker begins a call: a duplicate returns True at once, any other
\* call goes on to the POST
ReadIds ==
    \E w \in Workers, user_id \in Parties, message_id \in RaceIds :
        LET call == read_call(dedup, user_id, message_id)
        IN  /\ checking[w] = NoCall
            /\ checking' = [checking EXCEPT ![w] =
                               IF call.duplicate THEN NoCall ELSE call]
            /\ checked' = [checked EXCEPT ![w] =
                              IF call.duplicate
                              THEN [call EXCEPT !.at = "returned", !.old = <<>>]
                              ELSE NoCall]
            /\ serial_dedup' =
                   is_duplicate_message(serial_dedup, user_id, message_id, "ok", TRUE).dedup
            /\ overlapped' =
                   (overlapped \/ \E v \in Workers : checking[v].user_id = user_id)
            /\ UNCHANGED <<store, sent, last, expiry, pending, pos, lapsed, running,
                           serial, writes, dedup>>

\* old.append(message_id); old = old[-5:]; the POST; return False
WriteIds ==
    \E w \in Workers :
        LET c == checking[w]
        IN  /\ c.at = "read"
            /\ dedup' = (c.user_id :> LastN(Append(c.old, c.message_id), 5)) @@ dedup
            /\ checking' = [checking EXCEPT ![w] = NoCall]
            /\ checked' = [checked EXCEPT ![w] = [c EXCEPT !.at = "returned", !.old = <<>>]]
            /\ UNCHANGED <<store, sent, last, expiry, pending, pos, lapsed, running,
                           serial, overlapped, writes, serial_dedup>>

NextDedupRace == ReadIds \/ WriteIds

SpecDedupRace == Init /\ [][NextDedupRace]_vars

\* ------------------------------------------------------ failing calls
\* Each of the four network calls of a delivery (GET and POST to Redis,
\* POST to the Graph API) succeeds or fails.

IOs == [load : BOOLEAN, save1 : BOOLEAN, save2 : BOOLEAN, send : BOOLEAN]

FaultyDeliver ==
    \E sender \in Parties, e \in RetryDeliveries, io \in IOs :
        webhook(sender, e, FALSE, io) /\ UNCHANGED env

NextFaulty == FaultyDeliver

SpecFaulty == Init /\ [][NextFaulty]_vars

\* ----------------------------------------------- scripted conversation
\* Each party of ScriptParties posts the deliveries of RoundTrip in order,
\* the parties interleaved in every way.

Text(body) == [type |-> "text", body |-> body, name |-> "Ann"]

Image == [type |-> "image", body |-> <<>>, name |-> "Ann"]

RoundTrip ==
    << Text(Landlord), Image, Text(Boys), Text(Yes), Text(Yes),
       Text(<<"3">>), Text(<<"1", "3", "0">>),
       Text(<<"2">>), Text(<<"8", "0">>),
       Text(<<"1">>), Text(<<"6", "0">>),
       Text(<<"1", "8", "-", "2", "2">>), Text(Confirm) >>

ScriptedDeliver ==
    \E sender \in ScriptParties :
        /\ pos[sender] < Len(RoundTrip)
        /\ webhook(sender, RoundTrip[pos[sender] + 1], FALSE, AllOk)
        /\ pos' = [pos EXCEPT ![sender] = @ + 1]
        /\ UNCHANGED <<pending, lapsed, running, serial, overlapped, aside>>

NextRoundTrip == ScriptedDeliver

SpecRoundTrip == Init /\ [][NextRoundTrip]_vars

\* =============================================================== claims

\* the session persisted for a party ({} when the key is missing)
Session(p) == IF p \in DOMAIN store THEN store[p] ELSE EmptyDict

\* the persisted step, Start when the record has none
PersistedStep(p) == step_of(Session(p))

\* the collected answers of the persisted session
Attributes(p) == [k \in AttributeKeys \cap DOMAIN Session(p) |-> Session(p)[k]]

AllParties == Parties \cup ScriptParties

\* the step from (s, s') is the webhook handling a new delivery e of sender
Handles(sender, e) == webhook(sender, e, FALSE, AllOk)

CountSteps == {"ask_room_type", "ask_2_sharing", "ask_3_sharing"}

RentSteps == {"confirm_single", "confirm_2_sharing", "confirm_3_sharing"}

\* the steps of the fixed graph after AwaitingImage
PostImageSteps ==
    {"manual", "ask_cat_owner", "ask_availability"} \cup CountSteps \cup RentSteps
    \cup {"ask_student_age", "confirm_listing", "end"}

\* a non-empty run of the characters 0-9
IsDecimalRun(s) == s # <<>> /\ \A i \in DOMAIN s : s[i] \in Range(AsciiDigits)

\* the text matches /^[0-9]+$/
OnlyDigits(s) == IsDecimalRun(s)

\* the text matches /^[0-9]+(\.[0-9]+)?$/
DecimalPattern(s) ==
    \/ IsDecimalRun(s)
    \/ /\ Cardinality(Positions(s, {"."})) = 1
       /\ IsDecimalRun(IntPart(s))
       /\ IsDecimalRun(FracPart(s))

\* the greeting tokens of the Input Normalizer
GreetingTokens == {Hi, Hie, Hey, Hello}

\* the text inputs the transition table marks invalid at a step
InvalidText(step, msg) ==
    CASE step = "start" -> msg \notin {Landlord, Student} \cup GreetingTokens
      [] step = "awaiting_image" -> TRUE
      [] step = "manual" -> msg \notin {Boys, Girls, Mixed}
      [] step \in {"ask_cat_owner", "ask_availability"} -> msg \notin {Yes, No}
      [] step \in CountSteps -> ~OnlyDigits(msg)
      [] step \in RentSteps -> ~DecimalPattern(msg)
      [] step = "confirm_listing" -> msg \notin {Confirm, Cancel}
      [] step = "end" -> msg \notin GreetingTokens
      [] OTHER -> FALSE

\* the inputs the transition table marks invalid at a step
Invalid(step, e) ==
    \/ e.type = "image" /\ step # "awaiting_image"
    \/ e.type = "text" /\ InvalidText(step, msg_of(e))

\* C1: handling the same (party, delivery id) a second time changes neither
\* the persisted step nor any attribute, and nothing is sent to the party.
C1_RedeliveryIsNoOp ==
    [][\A p \in AllParties :
         (last'.retry /\ last'.from = p) =>
             /\ PersistedStep(p)' = PersistedStep(p)
             /\ Attributes(p)' = Attributes(p)
             /\ sent' = NoMessage]_vars

\* C2: an input the transition table marks invalid for the current step
\* leaves the persisted step and every collected attribute as they were.
C2_InvalidInputChangesNothing ==
    [][\A sender \in AllParties, e \in Deliveries :
         (Invalid(PersistedStep(sender), e) /\ Handles(sender, e)) =>
             /\ PersistedStep(sender)' = PersistedStep(sender)
             /\ Attributes(sender)' = Attributes(sender)]_vars

\* the steps of the fixed graph, in the order the scripted conversation
\* visits them
FixedGraph ==
    << "start", "awaiting_image", "manual", "ask_cat_owner", "ask_availability",
       "ask_room_type", "confirm_single", "ask_2_sharing", "confirm_2_sharing",
       "ask_3_sharing", "confirm_3_sharing", "ask_student_age", "confirm_listing",
       "end" >>

\* the float n * 10
Tens(n) == [cls |-> "finite", neg |-> FALSE, mant |-> n, exp |-> 1]

\* the answers of the scripted conversation: boys, yes, 3 at 130.0,
\* 2 at 80.0, 1 at 60.0, age 18-22
RoundTripAnswers ==
    [house_type |-> <<"b", "o", "y", "s">>, has_cat |-> <<"y", "e", "s">>,
     room_single |-> 3, rent_single |-> Tens(13),
     room_2_sharing |-> 2, rent_2_sharing |-> Tens(8),
     room_3_sharing |-> 1, rent_3_sharing |-> Tens(6),
     student_age |-> <<"1", "8", "-", "2", "2">>]

\* C3: in the scripted conversation every delivery moves the persisted step
\* one position along the fixed graph, and after the last delivery the step
\* is End and every attribute holds the value supplied at its own step.
C3_RoundTrip ==
    \A p \in ScriptParties :
        /\ PersistedStep(p) = FixedGraph[pos[p] + 1]
        /\ pos[p] = Len(RoundTrip) =>
               PersistedStep(p) = "end" /\ Attributes(p) = RoundTripAnswers

\* a party has completed the scripted conversation while the other is
\* in the middle of it
C3_Witness ==
    \E p, q \in ScriptParties :
        /\ pos[p] = Len(RoundTrip) /\ PersistedStep(p) = "end"
        /\ pos[q] > 0 /\ pos[q] < Len(RoundTrip)
        /\ sent.to = p

\* C4: after an image was accepted, an image delivered at any later step
\* changes neither the step nor any attribute and does not send the
\* verification reply again.
C4_ImageGuard ==
    [][\A sender \in AllParties, e \in Deliveries :
         (/\ e.type = "image"
          /\ PersistedStep(sender) \in PostImageSteps
          /\ Handles(sender, e)) =>
             /\ PersistedStep(sender)' = PersistedStep(sender)
             /\ Attributes(sender)' = Attributes(sender)
             /\ sent'.reply # image_reply(e.name)]_vars

\* C5: a greeting at End moves to Start, and the session persisted by that
\* transition holds none of the attributes collected on the previous pass.
C5_GreetingReset ==
    [][\A sender \in AllParties, e \in Deliveries :
         (/\ e.type = "text" /\ msg_of(e) \in {Hi, Hie, Hey}
          /\ PersistedStep(sender) = "end"
          /\ Handles(sender, e)) =>
             /\ PersistedStep(sender)' = "start"
             /\ Attributes(sender)' = EmptyDict]_vars

CountKey ==
    [ask_room_type |-> "room_single", ask_2_sharing |-> "room_2_sharing",
     ask_3_sharing |-> "room_3_sharing"]

CountAgain ==
    [ask_room_type |->
         <<"Please enter the number of students needing single rooms (number only).">>,
     ask_2_sharing |->
         <<"Please enter number of students needing 2-sharing rooms (number only).">>,
     ask_3_sharing |->
         <<"Please enter number of students needing 3-sharing rooms (number only).">>]

\* the entry of key k in the persisted session, as a set (empty when unset)
Field(p, k) == {Session(p)[j] : j \in {k} \cap DOMAIN Session(p)}

\* C6: at a count step a text that is not made only of digits leaves the
\* count field and the step as they were, and the step's count prompt is
\* sent again.
C6_CountGuard ==
    [][\A sender \in AllParties, e \in Deliveries :
         (/\ e.type = "text" /\ ~OnlyDigits(msg_of(e))
          /\ PersistedStep(sender) \in CountSteps
          /\ Handles(sender, e)) =>
             /\ PersistedStep(sender)' = PersistedStep(sender)
             /\ Field(sender, CountKey[PersistedStep(sender)])'
                    = Field(sender, CountKey[PersistedStep(sender)])
             /\ sent'.reply = CountAgain[PersistedStep(sender)]]_vars

\* C6, the part the code keeps: a text with a character str.isdigit()
\* rejects is re-prompted, with the count field and the step as they were.
C6_CountGuardNoDigitText ==
    [][\A sender \in AllParties, e \in Deliveries :
         (/\ e.type = "text" /\ ~IsDigit(msg_of(e))
          /\ PersistedStep(sender) \in CountSteps
          /\ Handles(sender, e)) =>
             /\ PersistedStep(sender)' = PersistedStep(sender)
             /\ Field(sender, CountKey[PersistedStep(sender)])'
                    = Field(sender, CountKey[PersistedStep(sender)])
             /\ sent'.reply = CountAgain[PersistedStep(sender)]]_vars

RentKey ==
    [confirm_single |-> "rent_single", confirm_2_sharing |-> "rent_2_sharing",
     confirm_3_sharing |-> "rent_3_sharing"]

RentAgain ==
    [confirm_single |-> <<"Please enter the rent as a number (e.g. 130).">>,
     confirm_2_sharing |-> <<"Please enter the rent as a number (e.g. 80).">>,
     confirm_3_sharing |-> <<"Please enter the rent as a number (e.g. 60).">>]

\* C7: at a rent step an input that does not match digits[.digits] leaves
\* the rent field and the step as they were, and the step's rent prompt is
\* sent again.
C7_RentGuard ==
    [][\A sender \in AllParties, e \in Deliveries :
         (/\ e.type # "image" /\ ~DecimalPattern(msg_of(e))
          /\ PersistedStep(sender) \in RentSteps
          /\ Handles(sender, e)) =>
             /\ PersistedStep(sender)' = PersistedStep(sender)
             /\ Field(sender, RentKey[PersistedStep(sender)])'
                    = Field(sender, RentKey[PersistedStep(sender)])
             /\ sent'.reply = RentAgain[PersistedStep(sender)]]_vars

\* C8: at AwaitingImage every input other than an image leaves the session
\* as it was, at AwaitingImage, and the image prompt is sent again.
C8_AwaitingImageKeeps ==
    [][\A sender \in AllParties, e \in Deliveries :
         (/\ e.type # "image"
          /\ PersistedStep(sender) = "awaiting_image"
          /\ Handles(sender, e)) =>
             /\ Session(sender)' = Session(sender)
             /\ sent'.reply =
                    <<"Please send an image (a screenshot of your WhatsApp profile name with your contact name) to proceed.">>]_vars

\* C9: once the step is StudentPending every input leaves the session as it
\* was, at StudentPending, and the app-download prompt is sent again.
C9_StudentPendingAbsorbs ==
    [][\A sender \in AllParties, e \in Deliveries :
         (PersistedStep(sender) = "student_pending" /\ Handles(sender, e)) =>
             /\ Session(sender)' = Session(sender)
             /\ sent'.reply = <<"Please download our app to secure your accommodation.">>]_vars

\* C10: at End the step becomes Start exactly when the input is one of the
\* greetings hi, hie, hey, hello; every other input leaves it at End.
C10_EndLeavesOnGreetingOnly ==
    [][\A sender \in AllParties, e \in Deliveries :
         (PersistedStep(sender) = "end" /\ Handles(sender, e)) =>
             IF e.type = "text" /\ msg_of(e) \in GreetingTokens
             THEN PersistedStep(sender)' = "start"
             ELSE PersistedStep(sender)' = "end"]_vars

\* the steps whose arm of the dispatch reads the text of the message
TextSteps ==
    {"start", "manual", "ask_cat_owner", "ask_availability"} \cup CountSteps
    \cup RentSteps \cup {"ask_student_age", "confirm_listing", "end"}

\* C11: at a step that expects text, a delivery that is neither text nor
\* image leaves the step and the attributes as they were and is answered
\* with a prompt.
C11_UnrecognizedKindKeeps ==
    [][\A sender \in AllParties, e \in Deliveries :
         (/\ e.type \notin {"text", "image"}
          /\ PersistedStep(sender) \in TextSteps
          /\ Handles(sender, e)) =>
             /\ PersistedStep(sender)' = PersistedStep(sender)
             /\ Attributes(sender)' = Attributes(sender)
             /\ sent'.to = sender /\ sent'.reply # <<>>]_vars

\* C12: 'confirm' at ConfirmingListing moves to End and a message is sent
\* to the operator address; 'cancel' moves to End and none is.
C12_ConfirmNotifiesOwner ==
    [][\A sender \in AllParties, e \in Deliveries :
         (/\ e.type = "text" /\ msg_of(e) \in {Confirm, Cancel}
          /\ PersistedStep(sender) = "confirm_listing"
          /\ Handles(sender, e)) =>
             /\ PersistedStep(sender)' = "end"
             /\ (sent'.to = owner_phone) <=> (msg_of(e) = Confirm)]_vars

\* C13: when the session of a party cannot be loaded, the handler does not
\* go on: the party's stored session is left exactly as it was (it is not
\* replaced by a new Start session) and the request does not answer 200.
C13_FailedLoadStops ==
    [][\A p \in Parties :
         (/\ p \in DOMAIN store
          /\ last'.from = p /\ ~last'.io.load) =>
             /\ store' = store
             /\ last'.status # 200]_vars

\* the steps a reply is the prompt of: the steps some arm of the handler
\* persists together with that reply
PromptSteps(reply) ==
    { dispatch(s, e.type, msg_of(e), e.name, [step |-> s]).state.step :
        <<s, e>> \in { x \in (TextSteps \cup {"awaiting_image", "student_pending"})
                              \X RetryDeliveries :
                         dispatch(x[1], x[2].type, msg_of(x[2]), x[2].name,
                                  [step |-> x[1]]).reply = reply } }

\* C14: when the writes of a delivery fail, the failure is reported (no 200)
\* and a message delivered to the party is the prompt of the step that is
\* persisted for the party.
C14_FailedSaveSurfaces ==
    [][\A p \in Parties :
         (/\ last'.from = p /\ last'.io.load
          /\ ~last'.io.save1 /\ ~last'.io.save2) =>
             /\ last'.status # 200
             /\ sent'.delivered => PersistedStep(p)' \in PromptSteps(sent'.reply)]_vars

\* C18: 'landlord' at Start persists verified = false and image_received =
\* false.
C18_LandlordStartsUnverified ==
    [][\A sender \in AllParties, e \in Deliveries :
         (/\ e.type = "text" /\ msg_of(e) = Landlord
          /\ PersistedStep(sender) = "start"
          /\ Handles(sender, e)) =>
             /\ Field(sender, "verified")' = {FALSE}
             /\ Field(sender, "image_received")' = {FALSE}]_vars

\* C19: a failed send does not undo the writes: when the load and the
\* writes of a delivery succeed and the send fails, the request still
\* answers 200, the party's session is stored with its two days to live,
\* and the persisted step is the one whose prompt the undelivered reply is.
C19_SendFailureKeepsSession ==
    [][\A p \in Parties :
         (/\ last'.from = p /\ last'.status = 200
          /\ last'.io.load /\ last'.io.save1 /\ last'.io.save2
          /\ ~last'.io.send) =>
             /\ ~sent'.delivered /\ sent'.to = p /\ sent'.reply # <<>>
             /\ p \in DOMAIN store'
             /\ PersistedStep(p)' \in PromptSteps(sent'.reply)
             /\ Attributes(p)' \in {Attributes(p)} \cup
                  {Set(Attributes(p), k, Session(p)'[k]) :
                     k \in AttributeKeys \cap DOMAIN Session(p)'}]_vars

\* 'landlord' at Start with the send failing: awaiting_image is persisted
\* and the prompt for the screenshot was not delivered
C19_Witness ==
    /\ last.from = "p1" /\ last.status = 200
    /\ last.io = [AllOk EXCEPT !.send = FALSE]
    /\ PersistedStep("p1") = "awaiting_image"
    /\ sent.to = "p1" /\ ~sent.delivered
    /\ PromptSteps(sent.reply) = {"awaiting_image"}

\* the steps of the transition table
KnownSteps == TextSteps \cup {"awaiting_image", "student_pending"}

\* C15: a stored session whose step is not a step of the table is handled
\* as a new Start session: the request does not fail, the earlier answers
\* are not kept, and 'landlord' leads to awaiting_image.
C15_UnknownStepIsStart ==
    [][\A sender \in Parties, e \in RetryDeliveries :
         (/\ PersistedStep(sender) \notin KnownSteps
          /\ Handles(sender, e)) =>
             /\ last'.status = 200
             /\ DOMAIN Attributes(sender)' = {}
             /\ (e.type = "text" /\ msg_of(e) = Landlord)
                    => PersistedStep(sender)' = "awaiting_image"]_vars

C16_SessionExpiry ==
    [][\A sender \in Parties, e \in ExpiryDeliveries :
         Handles(sender, e) =>
            /\ sender \in DOMAIN store' \cap DOMAIN expiry'
            /\ expiry'[sender] = 48 * 3600
            /\ sender \notin DOMAIN store =>
                  /\ DOMAIN Attributes(sender)' = {}
                  /\ e.type = "text" =>
                        PersistedStep(sender)' \in
                            {"start", "awaiting_image", "student_pending"}
            /\ \A k \in DOMAIN Attributes(sender)' :
                  \/ /\ k \in DOMAIN Attributes(sender)
                     /\ Attributes(sender)'[k] = Attributes(sender)[k]
                  \/ /\ k \notin DOMAIN Attributes(sender)
                     /\ Attributes(sender)'[k] = msg_of(e)]_vars

\* the session of p1 expired with an answer in it, and p1 has since come
\* back: the stored session is at awaiting_image with no answers
C16_Witness ==
    /\ "p1" \in DOMAIN lapsed /\ Has(lapsed["p1"], "house_type")
    /\ "p1" \in DOMAIN store /\ PersistedStep("p1") = "awaiting_image"
    /\ DOMAIN Attributes("p1") = {}
    /\ expiry["p1"] = SessionTtl

\* no worker is handling a request
AllIdle == \A w \in Workers : running[w] = Idle

\* C17: as long as no request of a party has begun while another request
\* of that party was running, the persisted sessions, once the workers are
\* idle, are those that result from handling the deliveries one after the
\* other in the order they were taken.
C17_SerialHandling ==
    (~overlapped /\ AllIdle) => store = serial

\* a lost update: two requests of p1 ran at the same time, both have
\* finished, and the persisted session lacks the house type that handling
\* them one after the other would have stored
C17_Witness ==
    /\ overlapped /\ AllIdle
    /\ "p1" \in DOMAIN store /\ "p1" \in DOMAIN serial
    /\ Has(serial["p1"], "house_type") /\ ~Has(store["p1"], "house_type")
    /\ step_of(serial["p1"]) = "ask_cat_owner" /\ PersistedStep("p1") = "manual"

\* the landlord steps that collect data, CollectingHouseType up to
\* ConfirmingListing
CollectingSteps == PostImageSteps \ {"end"}

\* C22: no delivery received at Start, StudentPending or End moves the
\* session directly into a data-collection step of the landlord flow.
C22_CollectingOnlyAfterImage ==
    [][\A sender \in AllParties, e \in Deliveries :
         (/\ PersistedStep(sender) \in {"start", "student_pending", "end"}
          /\ Handles(sender, e)) =>
             PersistedStep(sender)' \notin CollectingSteps]_vars

\* the position of a step on the fixed graph
Rank(step) == IndexOf(FixedGraph, step)

\* the landlord flow, AwaitingImage through ConfirmingListing
LandlordFlow == {"awaiting_image"} \cup CollectingSteps

\* C25: a delivery received at a step of the landlord flow never moves the
\* session to an earlier step of the fixed graph: it is accepted and the
\* session moves on, or it is rejected and the session stays.
C25_NeverMovesBack ==
    [][\A sender \in AllParties, e \in Deliveries :
         (/\ PersistedStep(sender) \in LandlordFlow
          /\ Handles(sender, e)) =>
             /\ PersistedStep(sender)' \in Range(FixedGraph)
             /\ Rank(PersistedStep(sender)') >= Rank(PersistedStep(sender))]_vars

\* C21: between two visits of Start, no answer of a party's session is
\* stored more than once.
C21_WrittenAtMostOnce ==
    \A p \in Parties, k \in AttributeKeys : writes[p][k] <= 1

\* the recent ids stored for p, none when p has no record
Recent(p) == IF p \in DOMAIN dedup THEN dedup[p] ELSE <<>>

\* the step from (s, s') is one whole call is_duplicate_message(p, id)
Checks(p, id) ==
    /\ checked'["w1"].user_id = p /\ checked'["w1"].message_id = id
    /\ checked'["w1"].at = "returned" /\ checked'["w1"].old = Recent(p)

NoneChecking == \A w \in Workers : checking[w] = NoCall

\* both workers' last calls were for the same party and the same id, and
\* both returned False
BothNotDuplicate ==
    /\ checked["w1"].at = "returned" /\ checked["w2"].at = "returned"
    /\ checked["w1"].user_id = checked["w2"].user_id
    /\ checked["w1"].message_id = checked["w2"].message_id
    /\ ~checked["w1"].duplicate /\ ~checked["w2"].duplicate

\* C24: the check is a read followed by a write with nothing in between
\* that excludes other calls.  As long as no call began while another call
\* for the same party was running, the stored lists are those of running
\* the calls one after the other, and two calls with the same id do not
\* both return False; with overlapping calls both can happen (witness).
C24_DedupSerial ==
    ~overlapped =>
        /\ ~BothNotDuplicate
        /\ NoneChecking => dedup = serial_dedup

\* two calls with the same id both returned False, and an id that calls
\* with different ids should have recorded is missing from the list
C24_Witness ==
    /\ overlapped /\ NoneChecking /\ BothNotDuplicate
    /\ "p1" \in DOMAIN dedup /\ "p1" \in DOMAIN serial_dedup
    /\ Range(serial_dedup["p1"]) \ Range(dedup["p1"]) # {}

=============================================================================
